---- MODULE Spec2Model ----
(***************************************************************************)
(* Multi-tenant task-management backend: the task status machine, the      *)
(* per-employee status list and the authorization overlay (roles,          *)
(* organization scoping, impersonation), as a sequential request/response  *)
(* state machine over the document database, with the audit log, the user  *)
(* administration, the buckets and the overdue sweep.                      *)
(*                                                                         *)
(* One request is processed at a time.  Each handler is an operator from   *)
(* the request and the current database to its result: the status code of  *)
(* the response, the tasks whose data it read into the response or wrote,  *)
(* and the database it leaves.  The action of a route commits the result   *)
(* of its handler.  Notifications and socket broadcasts are not part of the *)
(* state; a notification appears only where its failure decides the        *)
(* response (addComment) or where a property is about it.                  *)
(***************************************************************************)
EXTENDS Integers, Sequences, FiniteSets, TLC

(***************************************************************************)
(* Bounds of the model.                                                    *)
(***************************************************************************)
MaxTasks == 1
MaxTime == 1
MaxComments == 1
MaxAttachments == 1
MaxAudit == 2
MaxSweepTasks == 2
MaxAdminAudit == 3
MaxRaceTasks == 1
MaxBuckets == 3

(***************************************************************************)
(* The seeded database: two organizations, the platform super admin, an    *)
(* admin, two employees (one with a custom role name) and a deactivated    *)
(* employee in o1, an admin in o2.  All of them have logged in once.       *)
(***************************************************************************)
Orgs == {"o1", "o2"}
NoOrg == "undefined"
UserIds == {"sa", "a1", "e1", "e2", "e3", "a2"}
NoUser == "nobody"
NoDate == -1
NoParam == "absent"
AbsentDate == -2
AbsentList == <<>>

\* The status enum with one more member (the fault C9 excludes).
StatusEnum_withCancelled ==
    {"PENDING", "ACCEPTED", "IN_PROGRESS", "SUBMITTED", "COMPLETED", "REJECTED", "OVERDUE",
     "CANCELLED"}

StatusEnum == {"PENDING", "ACCEPTED", "IN_PROGRESS", "SUBMITTED", "COMPLETED", "REJECTED", "OVERDUE"}
EmployeeStatusEnum == {"PENDING", "ACCEPTED", "IN_PROGRESS", "SUBMITTED", "COMPLETED", "REJECTED"}

\* inflight and answered belong to the handlers taken between their await
\* points (the interleaving specification below): the operations that have
\* loaded their task and not yet saved it, and the operations that ended.
VARIABLES users, tasks, tokens, now, auditLog, inflight, answered, buckets

vars == <<users, tasks, tokens, now, auditLog, inflight, answered, buckets>>

(***************************************************************************)
(* Sequence helpers.                                                       *)
(***************************************************************************)
Range(s) == {s[i] : i \in 1..Len(s)}

Includes(s, x) == \E i \in 1..Len(s) : s[i] = x

(***************************************************************************)
(* Tokens.  A regular token carries the user id; an impersonation token    *)
(* carries the super admin's id and the target organization.               *)
(***************************************************************************)
generateToken(userId) ==
    [isImpersonating |-> FALSE, id |-> userId, targetOrganizationId |-> NoOrg]

generateImpersonationToken(superAdminId, targetOrganizationId) ==
    [isImpersonating |-> TRUE, id |-> superAdminId,
     targetOrganizationId |-> targetOrganizationId]

NoToken == [isImpersonating |-> FALSE, id |-> NoUser, targetOrganizationId |-> NoOrg]

(***************************************************************************)
(* Middleware.  A request context is [code, user, organizationId,          *)
(* isImpersonating]; code 200 means the chain goes on (next()).            *)
(***************************************************************************)
Rejected(code) ==
    [code |-> code, user |-> NoUser, organizationId |-> NoOrg, isImpersonating |-> FALSE]

\* protect that ignores the impersonation fields of the token (the fault
\* C10 excludes).
protect_ownOrg(token) ==
    IF token = NoToken \/ token \notin tokens THEN Rejected(401)
    ELSE IF token.id \notin DOMAIN users THEN Rejected(401)
    ELSE IF ~users[token.id].isActive THEN Rejected(401)
    ELSE [code |-> 200, user |-> token.id,
          organizationId |-> users[token.id].organizationId, isImpersonating |-> FALSE]

protect(token) ==
    IF token = NoToken \/ token \notin tokens THEN Rejected(401)
    ELSE IF token.id \notin DOMAIN users THEN Rejected(401)
    ELSE IF ~users[token.id].isActive THEN Rejected(401)
    ELSE IF token.isImpersonating
         THEN [code |-> 200, user |-> token.id,
               organizationId |-> token.targetOrganizationId, isImpersonating |-> TRUE]
         ELSE [code |-> 200, user |-> token.id,
               organizationId |-> users[token.id].organizationId, isImpersonating |-> FALSE]

checkOrganizationAccess(req) ==
    IF users[req.user].role = "SUPER_ADMIN" THEN req
    ELSE IF req.organizationId = NoOrg THEN [req EXCEPT !.code = 400]
    ELSE IF users[req.user].organizationId # req.organizationId THEN [req EXCEPT !.code = 403]
    ELSE req

\* restrictTo without the impersonation branch (the fault C13 excludes).
restrictTo_noImpersonation(roles, req) ==
    IF users[req.user].role \notin roles THEN [req EXCEPT !.code = 403] ELSE req

restrictTo(roles, req) ==
    IF users[req.user].role = "SUPER_ADMIN" /\ "SUPER_ADMIN" \in roles THEN req
    ELSE IF req.isImpersonating /\ users[req.user].role = "SUPER_ADMIN"
            /\ ("ADMIN" \in roles \/ "EMPLOYEE" \in roles) THEN req
    ELSE IF users[req.user].role \notin roles THEN [req EXCEPT !.code = 403]
    ELSE req

hasAdminPrivileges(req) ==
    \/ users[req.user].role = "ADMIN"
    \/ users[req.user].role = "SUPER_ADMIN"
    \/ (req.isImpersonating /\ users[req.user].role = "SUPER_ADMIN")

\* router.use(protect); router.use(checkOrganizationAccess)
TaskRouter(token) ==
    LET p == protect(token) IN IF p.code # 200 THEN p ELSE checkOrganizationAccess(p)


(***************************************************************************)
(* The result of a handler: the request context it ran under, the status   *)
(* code of the response, the tasks whose data it read into the response or *)
(* wrote, and the task collection and issued tokens it leaves.             *)
(***************************************************************************)
Result(req, code, touched, tasks2, tokens2) ==
    [user |-> req.user, organizationId |-> req.organizationId,
     isImpersonating |-> req.isImpersonating, code |-> code, touched |-> touched,
     tasks |-> tasks2, tokens |-> tokens2, users |-> users, auditLog |-> auditLog]

\* AuditLog.create({ userId, action, targetOrganizationId, targetUserId })
AuditEntry(userId, action, targetOrganizationId, targetUserId) ==
    [userId |-> userId, action |-> action,
     targetOrganizationId |-> targetOrganizationId, targetUserId |-> targetUserId]

\* A result whose handler has also appended an entry to the audit log.
Logged(result, entry) == [result EXCEPT !.auditLog = Append(@, entry)]

\* An answer that leaves the database as it is.
Answer(req, code, touched) == Result(req, code, touched, tasks, tokens)

\* An answer after task.save() of document doc under id taskId.
Saved(req, code, taskId, doc) ==
    Result(req, code, {taskId}, [tasks EXCEPT ![taskId] = doc], tokens)

(***************************************************************************)
(* Task model.                                                             *)
(***************************************************************************)
TaskIds == 1..Len(tasks)

\* The hook rebuilding employeeStatus for new documents only (the fault C8
\* excludes).
preSave_onlyNew(old, doc, isNew) ==
    LET a == IF isNew
             THEN [doc EXCEPT !.employeeStatus =
                      [i \in 1..Len(doc.assignedTo) |->
                          [employeeId |-> doc.assignedTo[i], status |-> "PENDING"]]]
             ELSE doc
        statusModified == isNew \/ doc.status # old.status
    IN IF statusModified /\ a.status = "IN_PROGRESS" /\ a.startedAt = NoDate
       THEN [a EXCEPT !.startedAt = now]
       ELSE a

\* taskSchema.pre('save').  Of the four time stamps the hook keeps
\* (acceptedAt, startedAt, submittedAt, completedAt) the model carries
\* startedAt; the others are set the same way and read by no handler.
preSave(old, doc, isNew) ==
    LET a == IF isNew \/ doc.assignedTo # old.assignedTo
             THEN [doc EXCEPT !.employeeStatus =
                      [i \in 1..Len(doc.assignedTo) |->
                          [employeeId |-> doc.assignedTo[i], status |-> "PENDING"]]]
             ELSE doc
        statusModified == isNew \/ doc.status # old.status
    IN IF statusModified /\ a.status = "IN_PROGRESS" /\ a.startedAt = NoDate
       THEN [a EXCEPT !.startedAt = now]
       ELSE a

\* Schema validation run by save(): required organizationId, the enums of
\* status and employeeStatus.status.
validateSync(doc) ==
    /\ doc.status \in StatusEnum
    /\ doc.organizationId # NoOrg
    /\ \A i \in 1..Len(doc.employeeStatus) : doc.employeeStatus[i].status \in EmployeeStatusEnum

\* The base filter without the organization (the fault C1 excludes).
OrgFilter_anyOrg(t, req) == ~tasks[t].isDeleted

\* { organizationId: req.organizationId, isDeleted: false }
OrgFilter(t, req) ==
    /\ tasks[t].organizationId = req.organizationId
    /\ ~tasks[t].isDeleted

\* { assignedTo: { $in: [req.user._id] } }
AssignedFilter(t, req) == Includes(tasks[t].assignedTo, req.user)

\* Task.findOne({ _id: taskId, ...filter }) finds a document.
Exists(taskId) == taskId \in TaskIds

\* User.find({ _id: { $in: ids }, organizationId, isActive: true })
findAssignedUsers(ids, organizationId) ==
    {u \in Range(ids) : /\ u \in DOMAIN users
                        /\ users[u].organizationId = organizationId
                        /\ users[u].isActive}

(***************************************************************************)
(* GET /api/tasks                                                          *)
(***************************************************************************)
\* A list filter in which the assignedTo query parameter replaces the
\* requester's own id (the fault C2 excludes).
getTasksFilter_queryOverrides(t, req, query) ==
    /\ tasks[t].organizationId = req.organizationId
    /\ ~tasks[t].isDeleted
    /\ (query.status # NoParam => tasks[t].status = query.status)
    /\ (query.priority # NoParam => tasks[t].priority = query.priority)
    /\ (query.search # NoParam => tasks[t].title = query.search)
    /\ IF query.assignedTo # NoParam THEN Includes(tasks[t].assignedTo, query.assignedTo)
       ELSE (~hasAdminPrivileges(req) => Includes(tasks[t].assignedTo, req.user))

getTasksFilter(t, req, query) ==
    /\ OrgFilter(t, req)
    /\ (query.status # NoParam => tasks[t].status = query.status)
    /\ (query.priority # NoParam => tasks[t].priority = query.priority)
    /\ (query.search # NoParam => tasks[t].title = query.search)
    /\ IF ~hasAdminPrivileges(req) THEN AssignedFilter(t, req)
       ELSE (query.assignedTo # NoParam => Includes(tasks[t].assignedTo, query.assignedTo))

getTasks(token, query) ==
    LET req == TaskRouter(token) IN
    IF req.code # 200 THEN Answer(req, req.code, {})
    ELSE Answer(req, 200, {t \in TaskIds : getTasksFilter(t, req, query)})

(***************************************************************************)
(* GET /api/tasks/:taskId                                                  *)
(***************************************************************************)
getTaskByIdFilter(t, req) ==
    /\ OrgFilter(t, req)
    /\ (~hasAdminPrivileges(req) => AssignedFilter(t, req))

getTaskById(token, taskId) ==
    LET req == TaskRouter(token) IN
    IF req.code # 200 THEN Answer(req, req.code, {})
    ELSE IF ~(Exists(taskId) /\ getTaskByIdFilter(taskId, req)) THEN Answer(req, 404, {})
    ELSE Answer(req, 200, {taskId})

(***************************************************************************)
(* POST /api/tasks                                                         *)
(***************************************************************************)
NewTask(organizationId, priority, dueDate, assignedTo, createdBy) ==
    [organizationId |-> organizationId, title |-> "report", priority |-> priority,
     status |-> "PENDING", employeeStatus |-> <<>>, dueDate |-> dueDate,
     assignedTo |-> assignedTo, createdBy |-> createdBy, isDeleted |-> FALSE,
     startedAt |-> NoDate, comments |-> 0, attachments |-> 0]

createTask(token, body) ==
    LET gate == TaskRouter(token)
        req == IF gate.code # 200 THEN gate ELSE restrictTo({"ADMIN", "SUPER_ADMIN"}, gate)
        assignedUsers == findAssignedUsers(body.assignedTo, req.organizationId)
        doc == NewTask(req.organizationId, "MEDIUM", body.dueDate, body.assignedTo, req.user)
        saved == preSave(doc, doc, TRUE)
    IN
    IF req.code # 200 THEN Answer(req, req.code, {})
    ELSE IF Cardinality(assignedUsers) # Len(body.assignedTo) THEN Answer(req, 404, {})
    ELSE IF ~validateSync(saved) THEN Answer(req, 500, {})
    ELSE Result(req, 201, {Len(tasks) + 1}, Append(tasks, saved), tokens)

(***************************************************************************)
(* PATCH /api/tasks/:taskId                                                *)
(***************************************************************************)
updateTaskFilter(t, req) ==
    /\ OrgFilter(t, req)
    /\ (~hasAdminPrivileges(req) => AssignedFilter(t, req))

\* body('status').optional().isIn([...])
validateStatus(status) == status = NoParam \/ status \in StatusEnum

\* The fields a requester may write: employees only the status, admins all.
applyUpdate(doc, req, body) ==
    IF ~hasAdminPrivileges(req)
    THEN IF body.status # NoParam THEN [doc EXCEPT !.status = body.status] ELSE doc
    ELSE LET a == IF body.status # NoParam THEN [doc EXCEPT !.status = body.status] ELSE doc
             b == IF body.dueDate # AbsentDate THEN [a EXCEPT !.dueDate = body.dueDate] ELSE a
             c == IF body.assignedTo # AbsentList
                  THEN [b EXCEPT !.assignedTo = body.assignedTo] ELSE b
         IN c

updateTask(token, taskId, body) ==
    LET req == TaskRouter(token)
        old == tasks[taskId]
        assignedUsers == findAssignedUsers(body.assignedTo, req.organizationId)
        saved == preSave(old, applyUpdate(old, req, body), FALSE)
    IN
    IF req.code # 200 THEN Answer(req, req.code, {})
    ELSE IF ~validateStatus(body.status) THEN Answer(req, 400, {})
    ELSE IF ~(Exists(taskId) /\ updateTaskFilter(taskId, req)) THEN Answer(req, 404, {})
    ELSE IF /\ hasAdminPrivileges(req)
            /\ body.assignedTo # AbsentList
            /\ Cardinality(assignedUsers) # Len(body.assignedTo)
         THEN Answer(req, 404, {})
    ELSE IF ~validateSync(saved) THEN Answer(req, 500, {})
    ELSE Saved(req, 200, taskId, saved)

(***************************************************************************)
(* DELETE /api/tasks/:taskId                                               *)
(***************************************************************************)
\* A delete that finds deleted tasks too and toggles the flag (the fault C16
\* excludes).
deleteTask_toggle(token, taskId) ==
    LET gate == TaskRouter(token)
        req == IF gate.code # 200 THEN gate ELSE restrictTo({"ADMIN", "SUPER_ADMIN"}, gate)
    IN
    IF req.code # 200 THEN Answer(req, req.code, {})
    ELSE IF ~(Exists(taskId) /\ tasks[taskId].organizationId = req.organizationId)
         THEN Answer(req, 404, {})
    ELSE Saved(req, 200, taskId,
               preSave(tasks[taskId], [tasks[taskId] EXCEPT !.isDeleted = ~@], FALSE))

deleteTask(token, taskId) ==
    LET gate == TaskRouter(token)
        req == IF gate.code # 200 THEN gate ELSE restrictTo({"ADMIN", "SUPER_ADMIN"}, gate)
    IN
    IF req.code # 200 THEN Answer(req, req.code, {})
    ELSE IF ~(Exists(taskId) /\ OrgFilter(taskId, req)) THEN Answer(req, 404, {})
    ELSE Saved(req, 200, taskId,
               preSave(tasks[taskId], [tasks[taskId] EXCEPT !.isDeleted = TRUE], FALSE))

(***************************************************************************)
(* POST /api/tasks/:taskId/attachments                                     *)
(***************************************************************************)
uploadAttachmentFilter(t, req) ==
    /\ OrgFilter(t, req)
    /\ (users[req.user].role = "EMPLOYEE" => AssignedFilter(t, req))

uploadAttachment(token, taskId, file, uploaded) ==
    LET req == TaskRouter(token) IN
    IF req.code # 200 THEN Answer(req, req.code, {})
    ELSE IF ~file THEN Answer(req, 400, {})
    ELSE IF ~(Exists(taskId) /\ uploadAttachmentFilter(taskId, req)) THEN Answer(req, 404, {})
    ELSE IF ~uploaded THEN Answer(req, 500, {})
    ELSE Saved(req, 200, taskId,
               preSave(tasks[taskId], [tasks[taskId] EXCEPT !.attachments = @ + 1], FALSE))

(***************************************************************************)
(* GET /api/tasks/:taskId/calendar.ics                                     *)
(***************************************************************************)
generateCalendarFile(token, taskId) ==
    LET req == TaskRouter(token) IN
    IF req.code # 200 THEN Answer(req, req.code, {})
    ELSE IF ~(Exists(taskId) /\ OrgFilter(taskId, req)) THEN Answer(req, 404, {})
    ELSE IF tasks[taskId].dueDate = NoDate THEN Answer(req, 400, {})
    ELSE Answer(req, 200, {taskId})

(***************************************************************************)
(* GET /api/tasks/stats                                                    *)
(***************************************************************************)
getTaskStatsFilter(t, req) ==
    /\ OrgFilter(t, req)
    /\ (users[req.user].role # "ADMIN" /\ users[req.user].role # "SUPER_ADMIN"
           => AssignedFilter(t, req))

getTaskStats(token) ==
    LET req == TaskRouter(token) IN
    IF req.code # 200 THEN Answer(req, req.code, {})
    ELSE Answer(req, 200, {t \in TaskIds : getTaskStatsFilter(t, req)})

(***************************************************************************)
(* Employee actions: POST /api/tasks/:taskId/accept, /start, /submit.      *)
(* The task is looked up among the requester's assigned tasks.             *)
(***************************************************************************)
assigneeFilter(t, req) ==
    /\ OrgFilter(t, req)
    /\ AssignedFilter(t, req)

acceptAllowed(status) == status = "PENDING"

startAllowed(status) == status = "ACCEPTED" \/ status = "PENDING"

\* A submit guard that also admits ACCEPTED (the fault C5 excludes).
submitAllowed_orAccepted(status) == status = "IN_PROGRESS" \/ status = "ACCEPTED"

submitAllowed(status) == status = "IN_PROGRESS"

acceptTask(token, taskId) ==
    LET req == TaskRouter(token) IN
    IF req.code # 200 THEN Answer(req, req.code, {})
    ELSE IF ~(Exists(taskId) /\ assigneeFilter(taskId, req)) THEN Answer(req, 404, {})
    ELSE IF ~acceptAllowed(tasks[taskId].status) THEN Answer(req, 400, {})
    ELSE Saved(req, 200, taskId,
               preSave(tasks[taskId], [tasks[taskId] EXCEPT !.status = "ACCEPTED"], FALSE))

startTask(token, taskId) ==
    LET req == TaskRouter(token) IN
    IF req.code # 200 THEN Answer(req, req.code, {})
    ELSE IF ~(Exists(taskId) /\ assigneeFilter(taskId, req)) THEN Answer(req, 404, {})
    ELSE IF ~startAllowed(tasks[taskId].status) THEN Answer(req, 400, {})
    ELSE Saved(req, 200, taskId,
               preSave(tasks[taskId],
                       [tasks[taskId] EXCEPT !.status = "IN_PROGRESS", !.startedAt = now],
                       FALSE))

submitTask(token, taskId) ==
    LET req == TaskRouter(token) IN
    IF req.code # 200 THEN Answer(req, req.code, {})
    ELSE IF ~(Exists(taskId) /\ assigneeFilter(taskId, req)) THEN Answer(req, 404, {})
    ELSE IF ~submitAllowed(tasks[taskId].status) THEN Answer(req, 400, {})
    ELSE Saved(req, 200, taskId,
               preSave(tasks[taskId], [tasks[taskId] EXCEPT !.status = "SUBMITTED"], FALSE))

(***************************************************************************)
(* Admin actions: POST /api/tasks/:taskId/complete, /reject.               *)
(***************************************************************************)
decideAllowed(status) == status = "SUBMITTED"

completeTask(token, taskId) ==
    LET gate == TaskRouter(token)
        req == IF gate.code # 200 THEN gate ELSE restrictTo({"ADMIN", "SUPER_ADMIN"}, gate)
    IN
    IF req.code # 200 THEN Answer(req, req.code, {})
    ELSE IF ~(Exists(taskId) /\ OrgFilter(taskId, req)) THEN Answer(req, 404, {})
    ELSE IF ~decideAllowed(tasks[taskId].status) THEN Answer(req, 400, {})
    ELSE Saved(req, 200, taskId,
               preSave(tasks[taskId], [tasks[taskId] EXCEPT !.status = "COMPLETED"], FALSE))

rejectTask(token, taskId) ==
    LET gate == TaskRouter(token)
        req == IF gate.code # 200 THEN gate ELSE restrictTo({"ADMIN", "SUPER_ADMIN"}, gate)
    IN
    IF req.code # 200 THEN Answer(req, req.code, {})
    ELSE IF ~(Exists(taskId) /\ OrgFilter(taskId, req)) THEN Answer(req, 404, {})
    ELSE IF ~decideAllowed(tasks[taskId].status) THEN Answer(req, 400, {})
    ELSE Saved(req, 200, taskId,
               preSave(tasks[taskId], [tasks[taskId] EXCEPT !.status = "REJECTED"], FALSE))

(***************************************************************************)
(* POST /api/tasks/:taskId/comments.  The comment is saved first; the      *)
(* notification that follows has type TASK_COMMENT, which the enum of the  *)
(* Notification schema does not list, so Notification.create throws and    *)
(* the request is answered 500 with the comment already stored.            *)
(***************************************************************************)
NotificationTypes == {"TASK_ASSIGNED", "TASK_UPDATED", "TASK_OVERDUE", "TASK_COMPLETED"}

addCommentFilter(t, req) ==
    /\ OrgFilter(t, req)
    /\ (users[req.user].role = "EMPLOYEE" => AssignedFilter(t, req))

addComment(token, taskId, message) ==
    LET req == TaskRouter(token) IN
    IF req.code # 200 THEN Answer(req, req.code, {})
    ELSE IF ~message THEN Answer(req, 400, {})
    ELSE IF ~(Exists(taskId) /\ addCommentFilter(taskId, req)) THEN Answer(req, 404, {})
    ELSE Saved(req, IF "TASK_COMMENT" \in NotificationTypes THEN 200 ELSE 500, taskId,
               preSave(tasks[taskId], [tasks[taskId] EXCEPT !.comments = @ + 1], FALSE))

(***************************************************************************)
(* The overdue sweep (cron, every 15 minutes).                             *)
(***************************************************************************)
\* A sweep filter that selects PENDING tasks only (the fault C15 excludes).
isOverdue_pendingOnly(t) ==
    /\ tasks[t].dueDate # NoDate
    /\ tasks[t].dueDate < now
    /\ tasks[t].status = "PENDING"
    /\ ~tasks[t].isDeleted

\* A sweep filter without the status clause (the fault C14 excludes).
isOverdue_anyStatus(t) ==
    /\ tasks[t].dueDate # NoDate
    /\ tasks[t].dueDate < now
    /\ ~tasks[t].isDeleted

isOverdue(t) ==
    /\ tasks[t].dueDate # NoDate
    /\ tasks[t].dueDate < now
    /\ tasks[t].status \in {"PENDING", "ACCEPTED", "IN_PROGRESS", "SUBMITTED"}
    /\ ~tasks[t].isDeleted

\* One run.  Each selected task is processed inside its own try/catch:
\* failed is the set of tasks whose save() throws in this run; their
\* processing ends there and the loop goes on with the next task.
checkOverdueTasks(failed) ==
    [t \in TaskIds |->
        IF isOverdue(t) /\ t \notin failed
        THEN preSave(tasks[t], [tasks[t] EXCEPT !.status = "OVERDUE"], FALSE)
        ELSE tasks[t]]

\* The tasks notifyTaskOverdue is called for in that run.
overdueNotified(failed) == {t \in TaskIds : isOverdue(t) /\ t \notin failed}

(***************************************************************************)
(* POST /api/auth/impersonate and GET /api/auth/me.  The auth router runs  *)
(* protect only.                                                           *)
(***************************************************************************)
impersonateOrganization(token, organizationId) ==
    LET gate == protect(token)
        req == IF gate.code # 200 THEN gate ELSE restrictTo({"SUPER_ADMIN"}, gate)
    IN
    IF req.code # 200 THEN Answer(req, req.code, {})
    ELSE IF users[req.user].role # "SUPER_ADMIN" THEN Answer(req, 403, {})
    ELSE IF organizationId \notin Orgs THEN Answer(req, 404, {})
    ELSE Logged(Result(req, 200, {}, tasks,
                       tokens \cup {generateImpersonationToken(req.user, organizationId)}),
                AuditEntry(req.user, "IMPERSONATION_START", organizationId, NoUser))

getCurrentUser(token) ==
    LET req == protect(token) IN
    IF req.code # 200 THEN Answer(req, req.code, {})
    ELSE Result(req, 200, {}, tasks,
                tokens \cup {IF req.isImpersonating
                             THEN generateImpersonationToken(req.user, req.organizationId)
                             ELSE generateToken(req.user)})

\* exitImpersonation without the check of req.isImpersonating (the fault C12
\* excludes).
exitImpersonation_unguarded(token) ==
    LET req == protect(token) IN
    IF req.code # 200 THEN Answer(req, req.code, {})
    ELSE Logged(Result(req, 200, {}, tasks, tokens \cup {generateToken(req.user)}),
                AuditEntry(req.user, "IMPERSONATION_END", req.organizationId, NoUser))

\* POST /api/auth/exit-impersonation (protect only).
exitImpersonation(token) ==
    LET req == protect(token) IN
    IF req.code # 200 THEN Answer(req, req.code, {})
    ELSE IF ~req.isImpersonating THEN Answer(req, 400, {})
    ELSE Logged(Result(req, 200, {}, tasks, tokens \cup {generateToken(req.user)}),
                AuditEntry(req.user, "IMPERSONATION_END", req.organizationId, NoUser))

(***************************************************************************)
(* POST /api/auth/login.  The email is the key of the user; the password   *)
(* is compared with the stored one.  Every organization is active.         *)
(***************************************************************************)
\* authenticateUser without the check of isActive (the fault C17 excludes).
authenticateUser_ignoresIsActive(email, password) ==
    IF email \notin DOMAIN users \/ users[email].password # password
    THEN Answer(Rejected(401), 401, {})
    ELSE Result([code |-> 200, user |-> email,
                 organizationId |-> users[email].organizationId, isImpersonating |-> FALSE],
                200, {}, tasks, tokens \cup {generateToken(email)})

authenticateUser(email, password) ==
    IF email \notin DOMAIN users \/ users[email].password # password
    THEN Answer(Rejected(401), 401, {})
    ELSE IF ~users[email].isActive THEN Answer(Rejected(401), 401, {})
    ELSE Result([code |-> 200, user |-> email,
                 organizationId |-> users[email].organizationId, isImpersonating |-> FALSE],
                200, {}, tasks, tokens \cup {generateToken(email)})

(***************************************************************************)
(* The user routes.  router.use(protect); the profile routes;              *)
(* router.use(checkOrganizationAccess); then the employee routes, each     *)
(* behind restrictTo.  The email of a new user is its key.  isActive in a  *)
(* body is "true", "false" or absent.                                      *)
(***************************************************************************)
UserRouter(token, roles) ==
    LET p == protect(token)
        c == IF p.code # 200 THEN p ELSE checkOrganizationAccess(p)
    IN IF c.code # 200 THEN c ELSE restrictTo(roles, c)

\* user.save() / User.create(): the result with the document stored.
SavedUser(result, id, doc) ==
    [result EXCEPT !.users = [u \in DOMAIN users \cup {id} |->
                                 IF u = id THEN doc ELSE users[u]]]

\* User.findOne({ _id: id, organizationId: req.organizationId })
findUser(id, req) ==
    id \in DOMAIN users /\ users[id].organizationId = req.organizationId

\* The User schema: organizationId is required unless the role is SUPER_ADMIN.
validateUser(doc) == doc.role = "SUPER_ADMIN" \/ doc.organizationId # NoOrg

createEmployee(token, email, password, role) ==
    LET req == UserRouter(token, {"ADMIN", "SUPER_ADMIN"})
        employee == [organizationId |-> req.organizationId,
                     role |-> IF role # NoParam THEN role ELSE "EMPLOYEE",
                     isActive |-> TRUE, password |-> password]
    IN
    IF req.code # 200 THEN Answer(req, req.code, {})
    ELSE IF email \in DOMAIN users THEN Answer(req, 400, {})
    ELSE IF ~validateUser(employee) THEN Answer(req, 500, {})
    ELSE Logged(SavedUser(Answer(req, 201, {}), email, employee),
                AuditEntry(req.user, "USER_CREATED", req.organizationId, email))

updateEmployee(token, employeeId, role, password, isActive) ==
    LET req == UserRouter(token, {"ADMIN", "SUPER_ADMIN"})
        old == users[employeeId]
        employee == [old EXCEPT
                       !.role = IF role # NoParam THEN role ELSE @,
                       !.password = IF password # NoParam THEN password ELSE @,
                       !.isActive = IF isActive # NoParam THEN isActive = "true" ELSE @]
    IN
    IF req.code # 200 THEN Answer(req, req.code, {})
    ELSE IF ~findUser(employeeId, req) THEN Answer(req, 404, {})
    ELSE IF ~validateUser(employee) THEN Answer(req, 500, {})
    ELSE SavedUser(Answer(req, 200, {}), employeeId, employee)

deleteEmployee(token, employeeId) ==
    LET req == UserRouter(token, {"ADMIN", "SUPER_ADMIN"}) IN
    IF req.code # 200 THEN Answer(req, req.code, {})
    ELSE IF ~findUser(employeeId, req) THEN Answer(req, 404, {})
    ELSE Logged(SavedUser(Answer(req, 200, {}), employeeId,
                          [users[employeeId] EXCEPT !.isActive = FALSE]),
                AuditEntry(req.user, "USER_DELETED", req.organizationId, employeeId))

\* A password the validators accept has at least 8 characters; "short" has not.
validPassword(password) == password \notin {NoParam, "short"}

forceChangePassword(token, userId, newPassword) ==
    LET req == UserRouter(token, {"SUPER_ADMIN"}) IN
    IF req.code # 200 THEN Answer(req, req.code, {})
    ELSE IF ~validPassword(newPassword) THEN Answer(req, 400, {})
    ELSE IF ~req.isImpersonating \/ users[req.user].role # "SUPER_ADMIN"
         THEN Answer(req, 403, {})
    ELSE IF ~findUser(userId, req) THEN Answer(req, 404, {})
    ELSE Logged(SavedUser(Answer(req, 200, {}), userId,
                          [users[userId] EXCEPT !.password = newPassword]),
                AuditEntry(req.user, "PASSWORD_FORCE_CHANGED", req.organizationId, userId))

(***************************************************************************)
(* The bucket routes (router.use(protect) only).  A bucket is              *)
(* [organizationId, name, createdBy, isDeleted]; its _id is its index.  A  *)
(* name is a sequence of characters.  The collection has a unique index on *)
(* (organizationId, name) that covers deleted buckets as well: an insert   *)
(* or update that breaks it throws, which the error handler answers 500.   *)
(***************************************************************************)
RECURSIVE trimStart(_)
trimStart(s) == IF s # <<>> /\ Head(s) = " " THEN trimStart(Tail(s)) ELSE s

RECURSIVE trimEnd(_)
trimEnd(s) ==
    IF s # <<>> /\ s[Len(s)] = " " THEN trimEnd(SubSeq(s, 1, Len(s) - 1)) ELSE s

\* String.prototype.trim
trim(s) == trimEnd(trimStart(s))

BucketIds == 1..Len(buckets)

BucketResult(req, code, buckets2) ==
    [user |-> req.user, organizationId |-> req.organizationId,
     isImpersonating |-> req.isImpersonating, code |-> code, buckets |-> buckets2]

\* The name check looking in every organization (the fault C21 excludes).
findBucketByName_anyOrg(organizationId, name, exceptId) ==
    {b \in BucketIds : /\ buckets[b].name = name
                       /\ ~buckets[b].isDeleted
                       /\ b # exceptId}

\* Bucket.findOne({ organizationId, name, isDeleted: false, _id: { $ne: exceptId } })
findBucketByName(organizationId, name, exceptId) ==
    {b \in BucketIds : /\ buckets[b].organizationId = organizationId
                       /\ buckets[b].name = name
                       /\ ~buckets[b].isDeleted
                       /\ b # exceptId}

\* Bucket.findOne({ _id: bucketId, organizationId: req.organizationId, isDeleted: false })
findBucket(bucketId, req) ==
    /\ bucketId \in BucketIds
    /\ buckets[bucketId].organizationId = req.organizationId
    /\ ~buckets[bucketId].isDeleted

\* The unique index { organizationId: 1, name: 1 }: the collection keeps it.
uniqueIndex(buckets2) ==
    \A b, c \in 1..Len(buckets2) :
        (buckets2[b].organizationId = buckets2[c].organizationId
         /\ buckets2[b].name = buckets2[c].name) => b = c

\* Bucket.create / bucket.save(): validation (organizationId is required),
\* then the write under the unique index.
saveBucket(req, code, buckets2, bucketId) ==
    IF buckets2[bucketId].organizationId = NoOrg THEN BucketResult(req, 500, buckets)
    ELSE IF ~uniqueIndex(buckets2) THEN BucketResult(req, 500, buckets)
    ELSE BucketResult(req, code, buckets2)

createBucket(token, name) ==
    LET req == protect(token)
        bucket == [organizationId |-> req.organizationId, name |-> trim(name),
                   createdBy |-> req.user, isDeleted |-> FALSE]
    IN
    IF req.code # 200 THEN BucketResult(req, req.code, buckets)
    ELSE IF ~hasAdminPrivileges(req) THEN BucketResult(req, 403, buckets)
    ELSE IF trim(name) = <<>> THEN BucketResult(req, 400, buckets)
    ELSE IF findBucketByName(req.organizationId, trim(name), 0) # {}
         THEN BucketResult(req, 400, buckets)
    ELSE saveBucket(req, 201, Append(buckets, bucket), Len(buckets) + 1)

updateBucket(token, bucketId, name) ==
    LET req == protect(token) IN
    IF req.code # 200 THEN BucketResult(req, req.code, buckets)
    ELSE IF ~hasAdminPrivileges(req) THEN BucketResult(req, 403, buckets)
    ELSE IF trim(name) = <<>> THEN BucketResult(req, 400, buckets)
    ELSE IF ~findBucket(bucketId, req) THEN BucketResult(req, 404, buckets)
    ELSE IF /\ trim(name) # buckets[bucketId].name
            /\ findBucketByName(req.organizationId, trim(name), bucketId) # {}
         THEN BucketResult(req, 400, buckets)
    ELSE saveBucket(req, 200, [buckets EXCEPT ![bucketId].name = trim(name)], bucketId)

deleteBucket(token, bucketId) ==
    LET req == protect(token) IN
    IF req.code # 200 THEN BucketResult(req, req.code, buckets)
    ELSE IF ~hasAdminPrivileges(req) THEN BucketResult(req, 403, buckets)
    ELSE IF ~findBucket(bucketId, req) THEN BucketResult(req, 404, buckets)
    ELSE saveBucket(req, 200, [buckets EXCEPT ![bucketId].isDeleted = TRUE], bucketId)

(***************************************************************************)
(* Requests: the inputs the routes are driven with.                        *)
(***************************************************************************)
AssignInputs ==
    {<<"e1">>, <<"e1", "e2">>, <<"a2">>, <<"e1", "e1">>, <<"e1", "a2">>, <<"e3">>}

StatusInputs == {NoParam, "CANCELLED"} \cup StatusEnum
DateInputs == {NoDate} \cup (0..(MaxTime - 1))
TaskParams == 1..MaxTasks
OrgInputs == Orgs \cup {"o9"}

\* The tokens a client may present: none, every issued one, and forged
\* impersonation tokens (which fail verification unless issued).
TokenInputs ==
    tokens \cup {NoToken, generateImpersonationToken("a1", "o2"),
                 generateImpersonationToken("sa", "o1")}

NoQuery == [status |-> NoParam, priority |-> NoParam, assignedTo |-> NoParam, search |-> NoParam]

Queries ==
    {NoQuery}
    \cup {[NoQuery EXCEPT !.status = st] : st \in {"PENDING", "COMPLETED"}}
    \cup {[NoQuery EXCEPT !.priority = pr] : pr \in {"MEDIUM", "HIGH"}}
    \cup {[NoQuery EXCEPT !.assignedTo = u] : u \in {"e1", "e2", "a2"}}
    \cup {[NoQuery EXCEPT !.search = se] : se \in {"report", "zzz"}}

CreateBodies ==
    {[status |-> NoParam, dueDate |-> d, assignedTo |-> a] : d \in DateInputs, a \in AssignInputs}

UpdateBodies ==
    {[status |-> st, dueDate |-> AbsentDate, assignedTo |-> AbsentList] : st \in StatusInputs}
    \cup {[status |-> NoParam, dueDate |-> d, assignedTo |-> AbsentList] : d \in DateInputs}
    \cup {[status |-> NoParam, dueDate |-> AbsentDate, assignedTo |-> a] : a \in AssignInputs}
    \cup {[status |-> "COMPLETED", dueDate |-> AbsentDate, assignedTo |-> <<"e1", "e2">>]}

NoBody == [status |-> NoParam, dueDate |-> AbsentDate, assignedTo |-> AbsentList]

TaskOps ==
    {"getTaskById", "deleteTask", "generateCalendarFile", "acceptTask", "startTask",
     "submitTask", "completeTask", "rejectTask"}

\* flag: "ok", or what is wrong with the upload or the comment
\* ("nofile", "failed", "empty").
Request(op, token, taskId, query, body, flag, organizationId) ==
    [op |-> op, token |-> token, taskId |-> taskId, query |-> query, body |-> body,
     flag |-> flag, organizationId |-> organizationId]

RequestsOf(op) ==
    CASE op = "getTasks" ->
           {Request(op, tk, 0, q, NoBody, "ok", NoOrg) : tk \in TokenInputs, q \in Queries}
      [] op \in {"getTaskStats", "getCurrentUser"} ->
           {Request(op, tk, 0, NoQuery, NoBody, "ok", NoOrg) : tk \in TokenInputs}
      [] op = "createTask" ->
           {Request(op, tk, 0, NoQuery, b, "ok", NoOrg) : tk \in TokenInputs, b \in CreateBodies}
      [] op = "updateTask" ->
           {Request(op, tk, t, NoQuery, b, "ok", NoOrg) :
               tk \in TokenInputs, t \in TaskParams, b \in UpdateBodies}
      [] op \in TaskOps ->
           {Request(op, tk, t, NoQuery, NoBody, "ok", NoOrg) : tk \in TokenInputs, t \in TaskParams}
      [] op = "uploadAttachment" ->
           {Request(op, tk, t, NoQuery, NoBody, f, NoOrg) :
               tk \in TokenInputs, t \in TaskParams, f \in {"ok", "nofile", "failed"}}
      [] op = "addComment" ->
           {Request(op, tk, t, NoQuery, NoBody, f, NoOrg) :
               tk \in TokenInputs, t \in TaskParams, f \in {"ok", "empty"}}
      [] op = "impersonateOrganization" ->
           {Request(op, tk, 0, NoQuery, NoBody, "ok", o) : tk \in TokenInputs, o \in OrgInputs}

Ops ==
    {"getTasks", "getTaskStats", "getCurrentUser", "createTask", "updateTask",
     "uploadAttachment", "addComment", "impersonateOrganization"} \cup TaskOps

Requests == UNION {RequestsOf(op) : op \in Ops}

\* The route table: the handler a request is dispatched to.
Handle(r) ==
    CASE r.op = "getTasks" -> getTasks(r.token, r.query)
      [] r.op = "getTaskById" -> getTaskById(r.token, r.taskId)
      [] r.op = "createTask" -> createTask(r.token, r.body)
      [] r.op = "updateTask" -> updateTask(r.token, r.taskId, r.body)
      [] r.op = "deleteTask" -> deleteTask(r.token, r.taskId)
      [] r.op = "uploadAttachment" ->
           uploadAttachment(r.token, r.taskId, r.flag # "nofile", r.flag # "failed")
      [] r.op = "generateCalendarFile" -> generateCalendarFile(r.token, r.taskId)
      [] r.op = "getTaskStats" -> getTaskStats(r.token)
      [] r.op = "acceptTask" -> acceptTask(r.token, r.taskId)
      [] r.op = "startTask" -> startTask(r.token, r.taskId)
      [] r.op = "submitTask" -> submitTask(r.token, r.taskId)
      [] r.op = "completeTask" -> completeTask(r.token, r.taskId)
      [] r.op = "rejectTask" -> rejectTask(r.token, r.taskId)
      [] r.op = "addComment" -> addComment(r.token, r.taskId, r.flag # "empty")
      [] r.op = "impersonateOrganization" -> impersonateOrganization(r.token, r.organizationId)
      [] r.op = "getCurrentUser" -> getCurrentUser(r.token)

(***************************************************************************)
(* Initial state.                                                          *)
(***************************************************************************)
\* A user document: the fields the handlers read.
User(organizationId, role, isActive) ==
    [organizationId |-> organizationId, role |-> role, isActive |-> isActive,
     password |-> "p0"]

Init ==
    /\ users = [u \in UserIds |->
                  CASE u = "sa" -> User(NoOrg, "SUPER_ADMIN", TRUE)
                    [] u = "a1" -> User("o1", "ADMIN", TRUE)
                    [] u = "e1" -> User("o1", "EMPLOYEE", TRUE)
                    [] u = "e2" -> User("o1", "MANAGER", TRUE)
                    [] u = "e3" -> User("o1", "EMPLOYEE", FALSE)
                    [] u = "a2" -> User("o2", "ADMIN", TRUE)]
    /\ tasks = <<>>
    /\ tokens = {generateToken(u) : u \in UserIds}
    /\ now = 0
    /\ auditLog = <<>>
    /\ inflight = {}
    /\ answered = {}
    /\ buckets = <<>>

(***************************************************************************)
(* Actions: a route commits the result of its handler.  The guard keeps    *)
(* the collections within the bounds of the model.                         *)
(***************************************************************************)
WithinBounds(tasks2) ==
    /\ Len(tasks2) <= MaxTasks
    /\ \A t \in 1..Len(tasks2) : /\ tasks2[t].comments <= MaxComments
                                 /\ tasks2[t].attachments <= MaxAttachments

Commit(result) ==
    /\ WithinBounds(result.tasks)
    /\ Len(result.auditLog) <= MaxAudit
    /\ tasks' = result.tasks
    /\ tokens' = result.tokens
    /\ users' = result.users
    /\ auditLog' = result.auditLog
    /\ UNCHANGED <<now, inflight, answered, buckets>>

GetTasks == \E r \in RequestsOf("getTasks") : Commit(Handle(r))
GetTaskById == \E r \in RequestsOf("getTaskById") : Commit(Handle(r))
CreateTask == \E r \in RequestsOf("createTask") : Commit(Handle(r))
UpdateTask == \E r \in RequestsOf("updateTask") : Commit(Handle(r))
DeleteTask == \E r \in RequestsOf("deleteTask") : Commit(Handle(r))
UploadAttachment == \E r \in RequestsOf("uploadAttachment") : Commit(Handle(r))
GenerateCalendarFile == \E r \in RequestsOf("generateCalendarFile") : Commit(Handle(r))
GetTaskStats == \E r \in RequestsOf("getTaskStats") : Commit(Handle(r))
AcceptTask == \E r \in RequestsOf("acceptTask") : Commit(Handle(r))
StartTask == \E r \in RequestsOf("startTask") : Commit(Handle(r))
SubmitTask == \E r \in RequestsOf("submitTask") : Commit(Handle(r))
CompleteTask == \E r \in RequestsOf("completeTask") : Commit(Handle(r))
RejectTask == \E r \in RequestsOf("rejectTask") : Commit(Handle(r))
AddComment == \E r \in RequestsOf("addComment") : Commit(Handle(r))
ImpersonateOrganization == \E r \in RequestsOf("impersonateOrganization") : Commit(Handle(r))
GetCurrentUser == \E r \in RequestsOf("getCurrentUser") : Commit(Handle(r))

\* cron.schedule('*/15 * * * *', ...)
CheckOverdueTasks ==
    /\ \E failed \in SUBSET TaskIds : tasks' = checkOverdueTasks(failed)
    /\ UNCHANGED <<users, tokens, now, auditLog, inflight, answered, buckets>>

\* Time passes.
Tick ==
    /\ now < MaxTime
    /\ now' = now + 1
    /\ UNCHANGED <<users, tasks, tokens, auditLog, inflight, answered, buckets>>

Next ==
    \/ GetTasks
    \/ GetTaskById
    \/ CreateTask
    \/ UpdateTask
    \/ DeleteTask
    \/ UploadAttachment
    \/ GenerateCalendarFile
    \/ GetTaskStats
    \/ AcceptTask
    \/ StartTask
    \/ SubmitTask
    \/ CompleteTask
    \/ RejectTask
    \/ AddComment
    \/ ImpersonateOrganization
    \/ GetCurrentUser
    \/ CheckOverdueTasks
    \/ Tick

Spec == Init /\ [][Next]_vars

(***************************************************************************)
(* The overdue sweep over several tasks.  An admin of o1 creates tasks for *)
(* e1, e1 accepts, the admin deletes, time passes and the sweep runs; in a *)
(* run the save of any selected task may throw.  The sweep is a cron job:  *)
(* it keeps being run (weak fairness).                                     *)
(***************************************************************************)
SweepCommit(result) ==
    /\ Len(result.tasks) <= MaxSweepTasks
    /\ Len(result.auditLog) <= MaxAudit
    /\ tasks' = result.tasks
    /\ tokens' = result.tokens
    /\ users' = result.users
    /\ auditLog' = result.auditLog
    /\ UNCHANGED <<now, inflight, answered, buckets>>

SweepCreateTask ==
    \E d \in DateInputs :
        SweepCommit(createTask(generateToken("a1"),
                               [status |-> NoParam, dueDate |-> d, assignedTo |-> <<"e1">>]))

SweepAcceptTask ==
    \E t \in 1..MaxSweepTasks : SweepCommit(acceptTask(generateToken("e1"), t))

SweepDeleteTask ==
    \E t \in 1..MaxSweepTasks : SweepCommit(deleteTask(generateToken("a1"), t))

NextSweep ==
    \/ SweepCreateTask
    \/ SweepAcceptTask
    \/ SweepDeleteTask
    \/ CheckOverdueTasks
    \/ Tick

SpecSweep == Init /\ [][NextSweep]_vars /\ WF_vars(CheckOverdueTasks)

(***************************************************************************)
(* User administration and impersonation.  The admin of o1, the employee   *)
(* e1 and the super admin (plain or impersonating o1) create the user n1,  *)
(* update, deactivate and re-key e1 (a2 is the employee of another         *)
(* organization), log in, and start and exit impersonation.                *)
(***************************************************************************)
AdminTokenInputs ==
    {NoToken, generateToken("a1"), generateToken("e1"),
     generateImpersonationToken("sa", "o1")}

AuthTokenInputs ==
    {generateToken("sa"), generateToken("a1"), generateImpersonationToken("sa", "o1")}

EmployeeInputs == {"e1", "a2"}
NewUsers == {"n1"}
RoleInputs == {NoParam, "SUPER_ADMIN"}
PasswordInputs == {NoParam, "p1"}
IsActiveInputs == {NoParam, "true", "false"}
LoginInputs == {"e1", "n1"}

AdminRequest(op, token, employeeId, role, password, isActive, organizationId) ==
    [op |-> op, token |-> token, employeeId |-> employeeId, role |-> role,
     password |-> password, isActive |-> isActive, organizationId |-> organizationId]

AdminRequestsOf(op) ==
    CASE op = "createEmployee" ->
           {AdminRequest(op, tk, n, ro, "p1", NoParam, NoOrg) :
               tk \in AdminTokenInputs, n \in NewUsers, ro \in RoleInputs}
      [] op = "updateEmployee" ->
           {AdminRequest(op, tk, e, ro, pw, ia, NoOrg) :
               tk \in AdminTokenInputs, e \in EmployeeInputs, ro \in RoleInputs,
               pw \in PasswordInputs, ia \in IsActiveInputs}
      [] op = "deleteEmployee" ->
           {AdminRequest(op, tk, e, NoParam, NoParam, NoParam, NoOrg) :
               tk \in AdminTokenInputs, e \in EmployeeInputs}
      [] op = "forceChangePassword" ->
           {AdminRequest(op, tk, e, NoParam, pw, NoParam, NoOrg) :
               tk \in AdminTokenInputs, e \in EmployeeInputs, pw \in {"p1", "short"}}
      [] op = "login" ->
           {AdminRequest(op, NoToken, e, NoParam, pw, NoParam, NoOrg) :
               e \in LoginInputs, pw \in {"p0", "p1"}}
      [] op = "impersonateOrganization" ->
           {AdminRequest(op, tk, NoUser, NoParam, NoParam, NoParam, o) :
               tk \in AuthTokenInputs, o \in {"o1", "o3"}}
      [] op = "exitImpersonation" ->
           {AdminRequest(op, tk, NoUser, NoParam, NoParam, NoParam, NoOrg) :
               tk \in AuthTokenInputs}

AdminOps ==
    {"createEmployee", "updateEmployee", "deleteEmployee", "forceChangePassword", "login",
     "impersonateOrganization", "exitImpersonation"}

AdminRequests == UNION {AdminRequestsOf(op) : op \in AdminOps}

AdminHandle(r) ==
    CASE r.op = "createEmployee" -> createEmployee(r.token, r.employeeId, r.password, r.role)
      [] r.op = "updateEmployee" ->
           updateEmployee(r.token, r.employeeId, r.role, r.password, r.isActive)
      [] r.op = "deleteEmployee" -> deleteEmployee(r.token, r.employeeId)
      [] r.op = "forceChangePassword" ->
           forceChangePassword(r.token, r.employeeId, r.password)
      [] r.op = "login" -> authenticateUser(r.employeeId, r.password)
      [] r.op = "impersonateOrganization" ->
           impersonateOrganization(r.token, r.organizationId)
      [] r.op = "exitImpersonation" -> exitImpersonation(r.token)

AdminCommit(result) ==
    /\ Len(result.auditLog) <= MaxAdminAudit
    /\ tasks' = result.tasks
    /\ tokens' = result.tokens
    /\ users' = result.users
    /\ auditLog' = result.auditLog
    /\ UNCHANGED <<now, inflight, answered, buckets>>

CreateEmployee == \E r \in AdminRequestsOf("createEmployee") : AdminCommit(AdminHandle(r))
UpdateEmployee == \E r \in AdminRequestsOf("updateEmployee") : AdminCommit(AdminHandle(r))
DeleteEmployee == \E r \in AdminRequestsOf("deleteEmployee") : AdminCommit(AdminHandle(r))
ForceChangePassword ==
    \E r \in AdminRequestsOf("forceChangePassword") : AdminCommit(AdminHandle(r))
Login == \E r \in AdminRequestsOf("login") : AdminCommit(AdminHandle(r))
StartImpersonation ==
    \E r \in AdminRequestsOf("impersonateOrganization") : AdminCommit(AdminHandle(r))
ExitImpersonation ==
    \E r \in AdminRequestsOf("exitImpersonation") : AdminCommit(AdminHandle(r))

NextAdmin ==
    \/ CreateEmployee
    \/ UpdateEmployee
    \/ DeleteEmployee
    \/ ForceChangePassword
    \/ Login
    \/ StartImpersonation
    \/ ExitImpersonation

SpecAdmin == Init /\ [][NextAdmin]_vars

(***************************************************************************)
(* Interleaving.  completeTask, rejectTask and the sweep each load the     *)
(* task (Task.findOne / Task.find), test it, and later await task.save();  *)
(* other requests run between the two.  save() of a loaded document writes *)
(* the paths the handler modified (here status) by _id, with no test of    *)
(* what is stored by then.  The first step of an operation is its load     *)
(* and its tests, as the handler computes them; the second is the save,    *)
(* the notification and the response.  The admin of o1 creates a task for  *)
(* e1, who accepts, starts and submits it.                                 *)
(***************************************************************************)
InFlight(op, taskId) == [op |-> op, taskId |-> taskId]

\* An operation that ended: its status code and the notification it sent to
\* the assignees before it.
Ended(op, taskId, code, notified) ==
    [op |-> op, taskId |-> taskId, code |-> code, notified |-> notified]

RaceCommit(result) ==
    /\ Len(result.tasks) <= MaxRaceTasks
    /\ tasks' = result.tasks
    /\ tokens' = result.tokens
    /\ users' = result.users
    /\ auditLog' = result.auditLog
    /\ UNCHANGED <<now, inflight, answered, buckets>>

RaceCreateTask ==
    \E d \in DateInputs :
        RaceCommit(createTask(generateToken("a1"),
                              [status |-> NoParam, dueDate |-> d, assignedTo |-> <<"e1">>]))

RaceAdvanceTask ==
    \E t \in 1..MaxRaceTasks :
        \/ RaceCommit(acceptTask(generateToken("e1"), t))
        \/ RaceCommit(startTask(generateToken("e1"), t))
        \/ RaceCommit(submitTask(generateToken("e1"), t))

\* The load and the tests of completeTask or rejectTask: the request goes on
\* to its save exactly when the handler, run on what is stored now, answers
\* 200; otherwise it ends here with the handler's error.
LoadDecision(op, t) ==
    LET result == IF op = "completeTask" THEN completeTask(generateToken("a1"), t)
                  ELSE rejectTask(generateToken("a1"), t)
    IN
    /\ InFlight(op, t) \notin inflight
    /\ IF result.code = 200
       THEN inflight' = inflight \cup {InFlight(op, t)} /\ UNCHANGED answered
       ELSE answered' = answered \cup {Ended(op, t, result.code, "none")}
            /\ UNCHANGED inflight
    /\ UNCHANGED <<users, tasks, tokens, now, auditLog, buckets>>

\* await task.save(); createNotification for the assignees; res.status(200)
SaveDecision(op, t) ==
    /\ InFlight(op, t) \in inflight
    /\ tasks' = [tasks EXCEPT
                   ![t].status = IF op = "completeTask" THEN "COMPLETED" ELSE "REJECTED"]
    /\ answered' = answered \cup
                     {Ended(op, t, 200,
                            IF op = "completeTask" THEN "TASK_COMPLETED" ELSE "TASK_UPDATED")}
    /\ inflight' = inflight \ {InFlight(op, t)}
    /\ UNCHANGED <<users, tokens, now, auditLog, buckets>>

LoadComplete == \E t \in 1..MaxRaceTasks : LoadDecision("completeTask", t)
SaveComplete == \E t \in 1..MaxRaceTasks : SaveDecision("completeTask", t)
LoadReject == \E t \in 1..MaxRaceTasks : LoadDecision("rejectTask", t)
SaveReject == \E t \in 1..MaxRaceTasks : SaveDecision("rejectTask", t)

\* The Task.find of a sweep run: the tasks it will save.
LoadSweep ==
    /\ \A e \in inflight : e.op # "checkOverdueTasks"
    /\ inflight' = inflight \cup {InFlight("checkOverdueTasks", t) :
                                     t \in {x \in TaskIds : isOverdue(x)}}
    /\ UNCHANGED <<users, tasks, tokens, now, auditLog, answered, buckets>>

\* task.status = 'OVERDUE'; await task.save(); await notifyTaskOverdue(task)
SaveSweep ==
    \E t \in 1..MaxRaceTasks :
        /\ InFlight("checkOverdueTasks", t) \in inflight
        /\ tasks' = [tasks EXCEPT ![t].status = "OVERDUE"]
        /\ answered' = answered \cup {Ended("checkOverdueTasks", t, 200, "TASK_OVERDUE")}
        /\ inflight' = inflight \ {InFlight("checkOverdueTasks", t)}
        /\ UNCHANGED <<users, tokens, now, auditLog, buckets>>

NextRace ==
    \/ RaceCreateTask
    \/ RaceAdvanceTask
    \/ LoadComplete
    \/ SaveComplete
    \/ LoadReject
    \/ SaveReject
    \/ LoadSweep
    \/ SaveSweep
    \/ Tick

SpecRace == Init /\ [][NextRace]_vars

(***************************************************************************)
(* Buckets.  The admins of o1 and o2, the employee e1 and the super admin  *)
(* (plain or impersonating o1) create, rename and delete buckets; names    *)
(* come with and without surrounding blanks.                               *)
(***************************************************************************)
BucketTokenInputs ==
    {NoToken, generateToken("a1"), generateToken("a2"), generateToken("e1"),
     generateToken("sa"), generateImpersonationToken("sa", "o1")}

NameInputs == {<<"a">>, <<" ", "a">>, <<"b", " ">>, <<" ">>, <<>>}

BucketParams == 1..MaxBuckets

BucketRequest(op, token, bucketId, name) ==
    [op |-> op, token |-> token, bucketId |-> bucketId, name |-> name]

BucketRequestsOf(op) ==
    CASE op = "createBucket" ->
           {BucketRequest(op, tk, 0, n) : tk \in BucketTokenInputs, n \in NameInputs}
      [] op = "updateBucket" ->
           {BucketRequest(op, tk, b, n) :
               tk \in BucketTokenInputs, b \in BucketParams, n \in NameInputs}
      [] op = "deleteBucket" ->
           {BucketRequest(op, tk, b, <<>>) : tk \in BucketTokenInputs, b \in BucketParams}

BucketHandle(r) ==
    CASE r.op = "createBucket" -> createBucket(r.token, r.name)
      [] r.op = "updateBucket" -> updateBucket(r.token, r.bucketId, r.name)
      [] r.op = "deleteBucket" -> deleteBucket(r.token, r.bucketId)

BucketCommit(result) ==
    /\ Len(result.buckets) <= MaxBuckets
    /\ buckets' = result.buckets
    /\ UNCHANGED <<users, tasks, tokens, now, auditLog, inflight, answered>>

CreateBucket == \E r \in BucketRequestsOf("createBucket") : BucketCommit(BucketHandle(r))
UpdateBucket == \E r \in BucketRequestsOf("updateBucket") : BucketCommit(BucketHandle(r))
DeleteBucket == \E r \in BucketRequestsOf("deleteBucket") : BucketCommit(BucketHandle(r))

NextBucket ==
    \/ CreateBucket
    \/ UpdateBucket
    \/ DeleteBucket
    \/ StartImpersonation

SpecBucket == Init /\ [][NextBucket]_vars

(***************************************************************************)
(* Properties.  A property about requests quantifies over every request    *)
(* the routes can be driven with in the current state and looks at the     *)
(* result of its handler.                                                  *)
(***************************************************************************)
\* The requester of a result is authenticated and is neither ADMIN nor
\* SUPER_ADMIN.
IsNonAdmin(res) ==
    /\ res.user # NoUser
    /\ users[res.user].role \notin {"ADMIN", "SUPER_ADMIN"}

TaskRequests == {r \in Requests : r.op \notin {"impersonateOrganization", "getCurrentUser"}}

\* The handler left every task outside touched as it was, and removed none.
OnlyTouched(res) ==
    /\ Len(res.tasks) >= Len(tasks)
    /\ \A t \in TaskIds \ res.touched : res.tasks[t] = tasks[t]

\* C1: tenant isolation.  Every task a task operation returns or writes
\* (before and after the write) belongs to the organization context of the
\* request, and no other task is changed.
C1_TenantIsolation ==
    \A r \in TaskRequests :
        LET res == Handle(r) IN
        /\ OnlyTouched(res)
        /\ \A t \in res.touched :
              /\ res.tasks[t].organizationId = res.organizationId
              /\ (t \in TaskIds => tasks[t].organizationId = res.organizationId)

\* C1 witness: a task of o2 exists; the admin of o1 asks for it and gets
\* 404, the admin of o2 gets it.
C1_Witness ==
    \E t \in TaskIds :
        /\ tasks[t].organizationId = "o2"
        /\ ~tasks[t].isDeleted
        /\ getTaskById(generateToken("a1"), t).code = 404
        /\ getTaskById(generateToken("a2"), t).touched = {t}
        /\ updateTask(generateToken("a1"), t, [NoBody EXCEPT !.status = "COMPLETED"]).code = 404

\* C2: employee visibility.  For a requester whose role is neither ADMIN
\* nor SUPER_ADMIN, getTasks and getTaskById return only tasks whose
\* assignedTo contains the requester, whatever the query; getTaskById
\* answers 404 for any other task.
C2_EmployeeVisibility ==
    \A r \in RequestsOf("getTasks") \cup RequestsOf("getTaskById") :
        LET res == Handle(r) IN
        IsNonAdmin(res) =>
            /\ \A t \in res.touched : Includes(tasks[t].assignedTo, res.user)
            /\ (/\ r.op = "getTaskById"
                /\ TaskRouter(r.token).code = 200
                /\ r.taskId \in TaskIds
                /\ ~Includes(tasks[r.taskId].assignedTo, res.user)) => res.code = 404

\* C2 witness: a task of o1 assigned to e1 and not to e2; e2 (role
\* MANAGER) asks for it by id and by the assignedTo query and gets nothing,
\* e1 gets it.
C2_Witness ==
    \E t \in TaskIds :
        /\ tasks[t].organizationId = "o1"
        /\ ~tasks[t].isDeleted
        /\ tasks[t].assignedTo = <<"e1">>
        /\ getTaskById(generateToken("e2"), t).code = 404
        /\ getTasks(generateToken("e2"), [NoQuery EXCEPT !.assignedTo = "e1"]).touched = {}
        /\ getTasks(generateToken("e1"), [NoQuery EXCEPT !.assignedTo = "e2"]).touched = {t}
        /\ getTaskById(generateToken("e1"), t).code = 200

\* C3: uniform authorization overlay.  A requester without admin
\* privileges reads, exports, comments on, attaches a file to or changes a
\* task only if they are in its assignedTo list.
C3_UniformOverlay ==
    \A r \in TaskRequests :
        LET res == Handle(r) IN
        IsNonAdmin(res) =>
            \A t \in res.touched : t \in TaskIds /\ Includes(tasks[t].assignedTo, res.user)

\* C4: a task reaches COMPLETED only through a requester with admin
\* privileges: no request of a requester without them moves a task's status
\* to COMPLETED.
C4_CompletedOnlyByApproval ==
    \A r \in TaskRequests :
        LET res == Handle(r) IN
        IsNonAdmin(res) =>
            \A t \in TaskIds : res.tasks[t].status = "COMPLETED" => tasks[t].status = "COMPLETED"

\* The status a lifecycle action requires and the status it results in.
RequiredStatus(op) ==
    CASE op = "acceptTask" -> "PENDING"
      [] op = "submitTask" -> "IN_PROGRESS"
      [] op \in {"completeTask", "rejectTask"} -> "SUBMITTED"

ResultStatus(op) ==
    CASE op = "acceptTask" -> "ACCEPTED"
      [] op = "submitTask" -> "SUBMITTED"
      [] op = "completeTask" -> "COMPLETED"
      [] op = "rejectTask" -> "REJECTED"

\* The request passes the middleware of its route and the task is among
\* those the route looks up for the requester.
Entitled(r) ==
    LET gate == TaskRouter(r.token) IN
    /\ gate.code = 200
    /\ IF r.op \in {"completeTask", "rejectTask"}
       THEN /\ restrictTo({"ADMIN", "SUPER_ADMIN"}, gate).code = 200
            /\ r.taskId \in TaskIds
            /\ tasks[r.taskId].organizationId = gate.organizationId
            /\ ~tasks[r.taskId].isDeleted
       ELSE /\ r.taskId \in TaskIds
            /\ tasks[r.taskId].organizationId = gate.organizationId
            /\ ~tasks[r.taskId].isDeleted
            /\ Includes(tasks[r.taskId].assignedTo, gate.user)

\* C5: lifecycle guards.  accept succeeds only on PENDING (result ACCEPTED),
\* submit only on IN_PROGRESS (result SUBMITTED), complete and reject only
\* on SUBMITTED (result COMPLETED, REJECTED); in any other status the action
\* answers 400 and leaves the task as it was.
C5_LifecycleGuards ==
    \A op \in {"acceptTask", "submitTask", "completeTask", "rejectTask"} :
        \A r \in RequestsOf(op) :
            LET res == Handle(r) IN
            /\ res.code = 200 =>
                  /\ tasks[r.taskId].status = RequiredStatus(op)
                  /\ res.tasks[r.taskId] = [tasks[r.taskId] EXCEPT !.status = ResultStatus(op)]
            /\ (Entitled(r) /\ tasks[r.taskId].status = RequiredStatus(op)) => res.code = 200
            /\ (Entitled(r) /\ tasks[r.taskId].status # RequiredStatus(op)) =>
                  /\ res.code = 400
                  /\ res.tasks = tasks

\* C5 witness: a SUBMITTED task of e1; accept and submit by e1 answer 400,
\* complete by the admin succeeds.
C5_Witness ==
    \E t \in TaskIds :
        /\ tasks[t].status = "SUBMITTED"
        /\ acceptTask(generateToken("e1"), t).code = 400
        /\ submitTask(generateToken("e1"), t).code = 400
        /\ completeTask(generateToken("a1"), t).code = 200
        /\ completeTask(generateToken("a1"), t).tasks[t].status = "COMPLETED"

\* C6: a task must be accepted before it can be started: startTask succeeds
\* only on a task whose status is ACCEPTED.
C6_StartOnlyAccepted ==
    \A r \in RequestsOf("startTask") :
        LET res == Handle(r) IN
        res.code = 200 =>
            /\ tasks[r.taskId].status = "ACCEPTED"
            /\ res.tasks[r.taskId].status = "IN_PROGRESS"
            /\ res.tasks[r.taskId].startedAt # NoDate

\* The per-employee status of employee u in document doc.
myStatus(doc, u) ==
    {doc.employeeStatus[i].status :
        i \in {j \in 1..Len(doc.employeeStatus) : doc.employeeStatus[j].employeeId = u}}

\* C7: independent per-employee sub-statuses.  When an assignee of a task
\* assigned to several employees accepts, starts or submits it, their own
\* employeeStatus entry takes the new status and the entries of the other
\* assignees are unchanged.
C7_PerEmployeeStatus ==
    \A op \in {"acceptTask", "startTask", "submitTask"} :
        \A r \in RequestsOf(op) :
            LET res == Handle(r) IN
            (res.code = 200 /\ Len(tasks[r.taskId].assignedTo) > 1) =>
                /\ myStatus(res.tasks[r.taskId], res.user) = {res.tasks[r.taskId].status}
                /\ \A u \in Range(tasks[r.taskId].assignedTo) \ {res.user} :
                      myStatus(res.tasks[r.taskId], u) = myStatus(tasks[r.taskId], u)

\* C8: each task's employeeStatus list has exactly one entry for every
\* member of assignedTo and no entry for anyone else.
C8_EmployeeStatusMatchesAssignedTo ==
    \A t \in TaskIds :
        LET es == tasks[t].employeeStatus IN
        /\ \A u \in Range(tasks[t].assignedTo) :
              Cardinality({i \in 1..Len(es) : es[i].employeeId = u}) = 1
        /\ \A i \in 1..Len(es) : Includes(tasks[t].assignedTo, es[i].employeeId)

\* C8 witness: a task with two assignees that has gone overdue, on which a
\* reassignment to one assignee succeeds and leaves one entry.
C8_Witness ==
    \E t \in TaskIds :
        /\ tasks[t].assignedTo = <<"e1", "e2">>
        /\ tasks[t].status = "OVERDUE"
        /\ Len(tasks[t].employeeStatus) = 2
        /\ LET res == updateTask(generateToken("a1"), t, [NoBody EXCEPT !.assignedTo = <<"e1">>])
           IN /\ res.code = 200
              /\ Len(res.tasks[t].employeeStatus) = 1

\* C9: each task's status is one of the seven task statuses, each
\* per-employee status one of the six (never OVERDUE), and a newly created
\* task and all its per-employee statuses are PENDING.
C9_StatusEnums ==
    /\ \A t \in TaskIds :
          /\ tasks[t].status \in {"PENDING", "ACCEPTED", "IN_PROGRESS", "SUBMITTED",
                                  "COMPLETED", "REJECTED", "OVERDUE"}
          /\ \A i \in 1..Len(tasks[t].employeeStatus) :
                tasks[t].employeeStatus[i].status \in
                    {"PENDING", "ACCEPTED", "IN_PROGRESS", "SUBMITTED", "COMPLETED", "REJECTED"}
    /\ \A r \in RequestsOf("createTask") :
          LET res == Handle(r) IN
          res.code = 201 =>
              LET doc == res.tasks[Len(res.tasks)] IN
              /\ Len(res.tasks) = Len(tasks) + 1
              /\ doc.status = "PENDING"
              /\ Len(doc.employeeStatus) = Len(doc.assignedTo)
              /\ \A i \in 1..Len(doc.employeeStatus) : doc.employeeStatus[i].status = "PENDING"

\* C9 witness: an OVERDUE task whose assignee is still PENDING; a PATCH with
\* a status outside the enum is answered 400.
C9_Witness ==
    \E t \in TaskIds :
        /\ tasks[t].status = "OVERDUE"
        /\ Len(tasks[t].employeeStatus) > 0
        /\ tasks[t].employeeStatus[1].status = "PENDING"
        /\ updateTask(generateToken("a1"), t, [NoBody EXCEPT !.status = "CANCELLED"]).code = 400

RouteRoles(op) ==
    CASE op \in {"createTask", "deleteTask", "completeTask", "rejectTask"} ->
           {"ADMIN", "SUPER_ADMIN"}
      [] op = "impersonateOrganization" -> {"SUPER_ADMIN"}
      [] OTHER -> {}

RoleSets == SUBSET {"EMPLOYEE", "ADMIN", "SUPER_ADMIN", "MANAGER"}

\* C13: restrictTo(roles) lets a request through exactly when the user's
\* role is in roles, or the user is a SUPER_ADMIN who is impersonating and
\* roles contains ADMIN or EMPLOYEE; otherwise it answers 403 and the
\* handler of the route does not run (403, nothing changed).
C13_RestrictTo ==
    /\ \A tk \in TokenInputs :
          LET req == protect(tk) IN
          req.code = 200 =>
              \A roles \in RoleSets :
                  LET out == restrictTo(roles, req)
                      allowed ==
                          \/ users[req.user].role \in roles
                          \/ /\ users[req.user].role = "SUPER_ADMIN"
                             /\ req.isImpersonating
                             /\ ("ADMIN" \in roles \/ "EMPLOYEE" \in roles)
                  IN /\ allowed => out = req
                     /\ ~allowed => out = [req EXCEPT !.code = 403]
    /\ \A r \in Requests :
          LET gate == IF r.op = "impersonateOrganization"
                      THEN protect(r.token) ELSE TaskRouter(r.token)
              res == Handle(r)
          IN (/\ RouteRoles(r.op) # {}
              /\ gate.code = 200
              /\ users[gate.user].role \notin RouteRoles(r.op)
              /\ ~(users[gate.user].role = "SUPER_ADMIN" /\ gate.isImpersonating)) =>
                 /\ res.code = 403
                 /\ res.tasks = tasks
                 /\ res.tokens = tokens
                 /\ res.auditLog = auditLog

\* C13 witness: the super admin holds an impersonation token; with it an
\* ADMIN route lets them through, without it it answers 403, as it does
\* for an employee.
C13_Witness ==
    /\ generateImpersonationToken("sa", "o1") \in tokens
    /\ restrictTo({"ADMIN"}, protect(generateImpersonationToken("sa", "o1"))).code = 200
    /\ restrictTo({"ADMIN"}, protect(generateToken("sa"))).code = 403
    /\ restrictTo({"ADMIN", "SUPER_ADMIN"}, protect(generateToken("e1"))).code = 403
    /\ \E t \in TaskIds : deleteTask(generateToken("e1"), t).code = 403

\* C14: a run of the overdue sweep sets OVERDUE on exactly the non-deleted
\* tasks whose dueDate is earlier than the run time and whose status is
\* PENDING, ACCEPTED, IN_PROGRESS or SUBMITTED; every other task is left
\* unchanged and gets no overdue notification.
C14_SweepExact ==
    \A t \in TaskIds :
        LET due == /\ ~tasks[t].isDeleted
                   /\ tasks[t].dueDate # NoDate
                   /\ tasks[t].dueDate < now
                   /\ tasks[t].status \in {"PENDING", "ACCEPTED", "IN_PROGRESS", "SUBMITTED"}
        IN /\ due => /\ checkOverdueTasks({})[t] = [tasks[t] EXCEPT !.status = "OVERDUE"]
                     /\ t \in overdueNotified({})
           /\ ~due => \A failed \in SUBSET TaskIds :
                         /\ checkOverdueTasks(failed)[t] = tasks[t]
                         /\ t \notin overdueNotified(failed)

\* C14 witness: a SUBMITTED task whose due date has passed; the sweep makes
\* it OVERDUE.
C14_Witness ==
    \E t \in TaskIds :
        /\ tasks[t].status = "SUBMITTED"
        /\ tasks[t].dueDate # NoDate
        /\ tasks[t].dueDate < now
        /\ ~tasks[t].isDeleted
        /\ checkOverdueTasks({})[t].status = "OVERDUE"

\* The request is well formed (it passes the validators of its route) and
\* is let through by the middleware of its route.
Admitted(r) ==
    LET gate == TaskRouter(r.token) IN
    /\ gate.code = 200
    /\ (RouteRoles(r.op) # {} => restrictTo(RouteRoles(r.op), gate).code = 200)
    /\ r.flag = "ok"
    /\ validateStatus(r.body.status)

\* C16: soft delete is permanent and hides the task: every task operation
\* on a deleted task answers 404 and leaves it as it is, lists and
\* statistics do not show it, the sweep skips it, and nothing sets
\* isDeleted back to false.
C16_SoftDelete ==
    \A t \in TaskIds :
        tasks[t].isDeleted =>
            /\ \A r \in TaskRequests :
                  LET res == Handle(r) IN
                  /\ res.tasks[t] = tasks[t]
                  /\ t \notin res.touched
                  /\ (r.taskId = t /\ Admitted(r)) => res.code = 404
            /\ \A failed \in SUBSET TaskIds : checkOverdueTasks(failed)[t] = tasks[t]

\* C16 witness: a deleted task whose due date has passed; the admin who
\* deleted it gets 404 for it and an empty list.
C16_Witness ==
    \E t \in TaskIds :
        /\ tasks[t].isDeleted
        /\ tasks[t].organizationId = "o1"
        /\ tasks[t].dueDate # NoDate
        /\ tasks[t].dueDate < now
        /\ getTaskById(generateToken("a1"), t).code = 404
        /\ deleteTask(generateToken("a1"), t).code = 404
        /\ getTasks(generateToken("a1"), NoQuery).touched = {}


\* Task t is one the sweep has to mark: not deleted, due date passed,
\* status still open.
Due(t) ==
    /\ t \in TaskIds
    /\ ~tasks[t].isDeleted
    /\ tasks[t].dueDate # NoDate
    /\ tasks[t].dueDate < now
    /\ tasks[t].status \in {"PENDING", "ACCEPTED", "IN_PROGRESS", "SUBMITTED"}

\* C15: as long as the sweep keeps being run, every non-deleted task whose
\* due date has passed and whose status stays open eventually has status
\* OVERDUE, also when the processing of another task fails in a run.
C15_EventuallyOverdue ==
    \A t \in 1..MaxSweepTasks :
        Due(t) ~> (~Due(t) \/ tasks[t].status = "OVERDUE")

\* C15 witness: two tasks are due; a run in which the save of the first
\* throws still marks the second, and the first has become OVERDUE in a
\* later run while the second one is open again.
C15_Witness ==
    /\ Len(tasks) = 2
    /\ Due(1)
    /\ Due(2)
    /\ tasks[2].status = "ACCEPTED"
    /\ checkOverdueTasks({1})[2].status = "OVERDUE"
    /\ checkOverdueTasks({1})[1] = tasks[1]
    /\ checkOverdueTasks({2})[1].status = "OVERDUE"


(***************************************************************************)
(* C11: every state-changing action a super admin performs while           *)
(* impersonating an organization (creating, updating or deleting its       *)
(* tasks or users, changing a password) appends an audit-log entry naming  *)
(* the super admin and the target organization.                            *)
(***************************************************************************)
\* The result appends one entry to the log, naming its user and organization.
AppendsEntry(res) ==
    /\ Len(res.auditLog) = Len(auditLog) + 1
    /\ res.auditLog[Len(res.auditLog)].userId = res.user
    /\ res.auditLog[Len(res.auditLog)].targetOrganizationId = res.organizationId

ChangesState(res) == res.tasks # tasks \/ res.users # users

C11_ImpersonatedActionsLogged ==
    /\ \A r \in Requests :
         LET res == Handle(r) IN
         (res.isImpersonating /\ res.code \in {200, 201} /\ ChangesState(res))
             => AppendsEntry(res)
    /\ \A r \in AdminRequests :
         LET res == AdminHandle(r) IN
         (res.isImpersonating /\ res.code \in {200, 201} /\ ChangesState(res))
             => AppendsEntry(res)

(***************************************************************************)
(* C12: a successful impersonation start appends an IMPERSONATION_START    *)
(* entry and only then issues the impersonation token; a successful exit   *)
(* appends an IMPERSONATION_END entry; exitImpersonation by a request that *)
(* is not impersonating answers 400 and appends nothing; every             *)
(* IMPERSONATION_END entry of the log is preceded by an                    *)
(* IMPERSONATION_START entry of the same super admin for the same          *)
(* organization.                                                           *)
(***************************************************************************)
C12_ImpersonationAudit ==
    /\ \A r \in AdminRequestsOf("impersonateOrganization") :
         LET res == AdminHandle(r) IN
         IF res.code = 200
         THEN /\ res.auditLog = Append(auditLog,
                                       AuditEntry(res.user, "IMPERSONATION_START",
                                                  r.organizationId, NoUser))
              /\ generateImpersonationToken(res.user, r.organizationId) \in res.tokens
         ELSE res.auditLog = auditLog /\ res.tokens = tokens
    /\ \A r \in AdminRequestsOf("exitImpersonation") :
         LET req == protect(r.token)
             res == AdminHandle(r)
         IN
         /\ res.code = 200 =>
              /\ req.isImpersonating
              /\ res.auditLog = Append(auditLog,
                                       AuditEntry(req.user, "IMPERSONATION_END",
                                                  req.organizationId, NoUser))
         /\ (req.code = 200 /\ ~req.isImpersonating) =>
              res.code = 400 /\ res.auditLog = auditLog /\ res.tokens = tokens
    /\ \A i \in 1..Len(auditLog) :
         auditLog[i].action = "IMPERSONATION_END" =>
             \E j \in 1..(i - 1) :
                 /\ auditLog[j].action = "IMPERSONATION_START"
                 /\ auditLog[j].userId = auditLog[i].userId
                 /\ auditLog[j].targetOrganizationId = auditLog[i].targetOrganizationId

\* The super admin has started and exited an impersonation of o1, and an exit
\* with the plain token is answered 400.
C12_Witness ==
    /\ auditLog = <<AuditEntry("sa", "IMPERSONATION_START", "o1", NoUser),
                    AuditEntry("sa", "IMPERSONATION_END", "o1", NoUser)>>
    /\ generateImpersonationToken("sa", "o1") \in tokens
    /\ exitImpersonation(generateToken("sa")).code = 400

(***************************************************************************)
(* C17: a deactivated user is refused.  As stated: once a user has been    *)
(* deactivated, every later request of that user to a protected route is   *)
(* answered 401, also with a token issued before the deactivation, and a   *)
(* login of that user is refused.  As it holds: the same, for as long as   *)
(* the user stays deactivated (updateEmployee with isActive true           *)
(* reactivates).                                                           *)
(***************************************************************************)
Deactivated(u) == u \in DOMAIN users /\ ~users[u].isActive

\* Every issued token of u is refused by protect, every request carrying one
\* is answered 401, and no login of u succeeds.
Refused(u) ==
    /\ \A tk \in tokens : tk.id = u => protect(tk).code = 401
    /\ \A r \in AdminRequests :
         (r.op # "login" /\ r.token \in tokens /\ r.token.id = u)
             => AdminHandle(r).code = 401
    /\ \A r \in Requests :
         (r.token \in tokens /\ r.token.id = u) => Handle(r).code = 401
    /\ \A pw \in {"p0", "p1"} : authenticateUser(u, pw).code = 401

\* As stated: a deactivated user is refused in every later state.
C17_DeactivationIsFinal ==
    [][\A u \in DOMAIN users : Deactivated(u) => Refused(u)']_vars

\* As it holds: a user is refused in every state in which it is deactivated.
C17_DeactivatedRefused ==
    \A u \in DOMAIN users : Deactivated(u) => Refused(u)

\* e1 was deactivated by deleteEmployee and still holds the token of its
\* earlier login; its password is known.
C17_Witness ==
    /\ Deactivated("e1")
    /\ generateToken("e1") \in tokens
    /\ \E i \in 1..Len(auditLog) :
         auditLog[i].action = "USER_DELETED" /\ auditLog[i].targetUserId = "e1"
    /\ users["e1"].password \in {"p0", "p1"}

(***************************************************************************)
(* C18: no request of a user whose role is not SUPER_ADMIN creates a user  *)
(* with role SUPER_ADMIN or changes a user's role to SUPER_ADMIN.          *)
(***************************************************************************)
SuperAdmins(userDocs) == {u \in DOMAIN userDocs : userDocs[u].role = "SUPER_ADMIN"}

C18_NoSuperAdminByOrgUsers ==
    \A r \in AdminRequests :
        LET req == protect(r.token)
            res == AdminHandle(r)
        IN
        (r.op # "login" /\ req.code = 200 /\ users[req.user].role # "SUPER_ADMIN")
            => SuperAdmins(res.users) \subseteq SuperAdmins(users)

(***************************************************************************)
(* C19: a task an admin has completed is never set to OVERDUE by the       *)
(* overdue sweep, also when the sweep selected it while it was SUBMITTED    *)
(* and saves after the completion was saved.                               *)
(***************************************************************************)
C19_CompletedNeverOverdue ==
    [][\A t \in TaskIds :
          tasks[t].status = "COMPLETED" => tasks'[t].status # "OVERDUE"]_vars

(***************************************************************************)
(* C20: a submitted task is decided once: of a complete and a reject of    *)
(* the same task at most one succeeds, and the assignees are sent only the *)
(* notification that matches the final status.                             *)
(***************************************************************************)
Succeeded(op, t) == \E e \in answered : e.op = op /\ e.taskId = t /\ e.code = 200

Notified(t, type) == \E e \in answered : e.taskId = t /\ e.notified = type

C20_DecidedOnce ==
    \A t \in TaskIds :
        /\ ~(Succeeded("completeTask", t) /\ Succeeded("rejectTask", t))
        /\ ~(Notified(t, "TASK_COMPLETED") /\ Notified(t, "TASK_UPDATED"))

(***************************************************************************)
(* C21: bucket names are unique within an organization.  In every          *)
(* reachable state no two non-deleted buckets of one organization have the *)
(* same name; createBucket, and updateBucket of a bucket the request       *)
(* finds, with a name that another non-deleted bucket of the organization  *)
(* holds, answer 400 and leave all buckets unchanged.  The requests meant  *)
(* are those of an authenticated user with admin privileges; the names are *)
(* compared after trim().  An admitted request is answered 400 for no      *)
(* other reason than a held or a blank name.                               *)
(***************************************************************************)
\* Another non-deleted bucket of the organization holds the name.
Held(organizationId, name, exceptId) ==
    \E b \in BucketIds : /\ b # exceptId
                         /\ ~buckets[b].isDeleted
                         /\ buckets[b].organizationId = organizationId
                         /\ buckets[b].name = name

AdmittedToBuckets(req) == req.code = 200 /\ hasAdminPrivileges(req)

C21_UniqueBucketNames ==
    /\ \A b, c \in BucketIds :
         (/\ ~buckets[b].isDeleted
          /\ ~buckets[c].isDeleted
          /\ buckets[b].organizationId = buckets[c].organizationId
          /\ buckets[b].name = buckets[c].name) => b = c
    /\ \A r \in BucketRequestsOf("createBucket") :
         LET req == protect(r.token)
             res == BucketHandle(r)
         IN
         AdmittedToBuckets(req) =>
             /\ Held(req.organizationId, trim(r.name), 0)
                  => (res.code = 400 /\ res.buckets = buckets)
             /\ res.code = 400
                  => (trim(r.name) = <<>> \/ Held(req.organizationId, trim(r.name), 0))
    /\ \A r \in BucketRequestsOf("updateBucket") :
         LET req == protect(r.token)
             res == BucketHandle(r)
         IN
         (AdmittedToBuckets(req) /\ findBucket(r.bucketId, req)) =>
             /\ Held(req.organizationId, trim(r.name), r.bucketId)
                  => (res.code = 400 /\ res.buckets = buckets)
             /\ res.code = 400
                  => (trim(r.name) = <<>>
                      \/ Held(req.organizationId, trim(r.name), r.bucketId))

\* o1 has the buckets "a" and "b", o2 has a bucket "a" too; creating " a" in
\* o1 and renaming o1's "b" to "a" are both answered 400.
C21_Witness ==
    \E i, j, k \in BucketIds :
        /\ buckets[i] = [organizationId |-> "o1", name |-> <<"a">>,
                         createdBy |-> "a1", isDeleted |-> FALSE]
        /\ buckets[j].organizationId = "o1" /\ buckets[j].name = <<"b">>
        /\ ~buckets[j].isDeleted
        /\ buckets[k].organizationId = "o2" /\ buckets[k].name = <<"a">>
        /\ ~buckets[k].isDeleted
        /\ createBucket(generateToken("a1"), <<" ", "a">>).code = 400
        /\ updateBucket(generateToken("a1"), j, <<"a">>).code = 400

====
